---------------------------- MODULE Spec2Model ----------------------------
(***************************************************************************)
(* Model of the UltiSnips snippet-file parser                              *)
(* (pythonx/UltiSnips/snippet/source/file/ulti_snips.py):                  *)
(* _parse_snippets_file, the top-level directive scan, and                 *)
(* _handle_snippet_or_global, the header parser and body collector that    *)
(* share its line cursor.                                                  *)
(*                                                                         *)
(* A Python str is a sequence of one-character strings, so that split,     *)
(* strip, rfind and slicing are computed as Python computes them.  Python  *)
(* objects that are shared by reference (the globals table, the actions    *)
(* dicts) live in heaps and are held as addresses.                         *)
(***************************************************************************)
EXTENDS Integers, Sequences, FiniteSets, TLC

(***************************************************************************)
(* Bounds of the model.                                                    *)
(***************************************************************************)
MaxChunks == 2
MaxHeaderLen == 6

(***************************************************************************)
(* Python str primitives.                                                  *)
(***************************************************************************)
Whitespace == {" ", "\t", "\n", "\r"}

Digits == <<"0", "1", "2", "3", "4", "5", "6", "7", "8", "9">>

QUOTE == "\""

\* s[i:] and s[:j] with 0-based non-negative bounds, clipped as Python clips
PyFrom(s, i) == IF i >= Len(s) THEN <<>> ELSE SubSeq(s, i + 1, Len(s))

PyUpTo(s, j) == IF j <= 0 THEN <<>> ELSE IF j >= Len(s) THEN s ELSE SubSeq(s, 1, j)

\* s[:-k] for k >= 1
PyDropLast(s, k) == PyUpTo(s, Len(s) - k)

RECURSIVE LStrip(_)
LStrip(s) ==
    IF s = <<>> THEN <<>>
    ELSE IF Head(s) \in Whitespace THEN LStrip(Tail(s)) ELSE s

RECURSIVE RStrip(_)
RStrip(s) ==
    IF s = <<>> THEN <<>>
    ELSE IF s[Len(s)] \in Whitespace THEN RStrip(SubSeq(s, 1, Len(s) - 1)) ELSE s

\* str.strip()
Strip(s) == LStrip(RStrip(s))

RECURSIVE LStripChar(_, _)
LStripChar(s, c) ==
    IF s = <<>> THEN <<>>
    ELSE IF Head(s) = c THEN LStripChar(Tail(s), c) ELSE s

RECURSIVE RStripChar(_, _)
RStripChar(s, c) ==
    IF s = <<>> THEN <<>>
    ELSE IF s[Len(s)] = c THEN RStripChar(SubSeq(s, 1, Len(s) - 1), c) ELSE s

\* str.strip(c) for a one-character c
StripChar(s, c) == LStripChar(RStripChar(s, c), c)

\* length of the leading run of non-whitespace characters
RECURSIVE WordLen(_)
WordLen(s) ==
    IF s = <<>> THEN 0
    ELSE IF Head(s) \in Whitespace THEN 0 ELSE 1 + WordLen(Tail(s))

\* str.split(): the maximal runs of non-whitespace characters
RECURSIVE Split(_)
Split(s) ==
    LET t == LStrip(s) IN
    IF t = <<>> THEN <<>>
    ELSE <<SubSeq(t, 1, WordLen(t))>> \o Split(PyFrom(t, WordLen(t)))

\* str.rfind(c): the 0-based index of the last occurrence of c, or -1
RECURSIVE RFind(_, _)
RFind(s, c) ==
    IF s = <<>> THEN -1
    ELSE IF s[Len(s)] = c THEN Len(s) - 1 ELSE RFind(SubSeq(s, 1, Len(s) - 1), c)

\* c in s
Contains(s, c) == \E i \in 1..Len(s) : s[i] = c

RECURSIVE Concat(_)
Concat(ss) == IF ss = <<>> THEN <<>> ELSE Head(ss) \o Concat(Tail(ss))

DigitVal(c) == (CHOOSE i \in 1..10 : Digits[i] = c) - 1

IsDigit(c) == \E i \in 1..10 : Digits[i] = c

RECURSIVE DigitsVal(_)
DigitsVal(s) ==
    IF s = <<>> THEN 0 ELSE 10 * DigitsVal(SubSeq(s, 1, Len(s) - 1)) + DigitVal(s[Len(s)])

\* int(tok) succeeds: an optional sign followed by at least one digit
IsInt(tok) ==
    LET body == IF tok # <<>> /\ Head(tok) \in {"+", "-"} THEN Tail(tok) ELSE tok IN
    /\ body # <<>>
    /\ \A i \in 1..Len(body) : IsDigit(body[i])

\* int(tok)
IntVal(tok) ==
    IF Head(tok) = "-" THEN 0 - DigitsVal(Tail(tok))
    ELSE IF Head(tok) = "+" THEN DigitsVal(Tail(tok))
    ELSE DigitsVal(tok)

(***************************************************************************)
(* The keywords of the file format, as Python strs.                        *)
(***************************************************************************)
KW_snippet == <<"s", "n", "i", "p", "p", "e", "t">>

KW_global == <<"g", "l", "o", "b", "a", "l">>

KW_extends == <<"e", "x", "t", "e", "n", "d", "s">>

KW_clearsnippets == <<"c", "l", "e", "a", "r", "s", "n", "i", "p", "p", "e", "t", "s">>

KW_context == <<"c", "o", "n", "t", "e", "x", "t">>

KW_priority == <<"p", "r", "i", "o", "r", "i", "t", "y">>

KW_pre_expand == <<"p", "r", "e", "_", "e", "x", "p", "a", "n", "d">>

KW_post_expand == <<"p", "o", "s", "t", "_", "e", "x", "p", "a", "n", "d">>

KW_post_jump == <<"p", "o", "s", "t", "_", "j", "u", "m", "p">>

KW_post_finish == <<"p", "o", "s", "t", "_", "f", "i", "n", "i", "s", "h">>

KW_end == <<"e", "n", "d">>

ActionKeywords == {KW_pre_expand, KW_post_expand, KW_post_jump, KW_post_finish}

(***************************************************************************)
(* Python values that a variable may hold in turn: None, a str, or the     *)
(* (message, line) tuple of an error.                                      *)
(***************************************************************************)
None == [kind |-> "None"]

PyStr(s) == [kind |-> "str", val |-> s]

\* the pair (fmt % arg, line_index) of an error event
MsgLine(fmt, arg, line) == [kind |-> "tuple", msg |-> fmt, arg |-> arg, line |-> line]

\* bool(v), as `not context` evaluates it
Truthy(v) == IF v.kind = "None" THEN FALSE ELSE IF v.kind = "str" THEN v.val # <<>> ELSE TRUE

(***************************************************************************)
(* Collaborators of the parser: UltiSnips.text.head_tail and the three     *)
(* sub-parsers of UltiSnips.snippet.source.file.common.                    *)
(***************************************************************************)
\* the first word of the line and the stripped rest of it
head_tail(line) ==
    LET t == LStrip(line) IN
    [head |-> SubSeq(t, 1, WordLen(t)), tail |-> Strip(PyFrom(t, WordLen(t)))]

handle_extends(tail, line_index) ==
    IF tail # <<>>
    THEN [head |-> "extends", value |-> [kind |-> "list", items |-> Split(tail)]]
    ELSE [head |-> "error", value |-> MsgLine("'extends' without file types", <<>>, line_index)]

handle_context(tail, line_index) ==
    IF tail # <<>>
    THEN [head |-> "context", value |-> PyStr(StripChar(tail, QUOTE))]
    ELSE [head |-> "error", value |-> MsgLine("'context' without body", <<>>, line_index)]

handle_action(head, tail, line_index) ==
    IF tail # <<>>
    THEN [head |-> "action", key |-> head, value |-> PyStr(StripChar(tail, QUOTE))]
    ELSE [head |-> "error", key |-> head,
          value |-> MsgLine("'%s' without specified action", head, line_index)]

(***************************************************************************)
(* _handle_snippet_or_global: the header parser.                           *)
(***************************************************************************)
\* the last word is the options when the word before it ends with a quote
HasOpts(words) ==
    /\ Len(words) > 2
    /\ ~Contains(words[Len(words)], QUOTE)
    /\ words[Len(words) - 1][Len(words[Len(words) - 1])] = QUOTE

\* left = remain[:-1].rfind('"'); left != -1 and left != 0
QuoteLeft(remain) == RFind(PyDropLast(remain, 1), QUOTE)

\* HasQuoteLeft without `left != 0`
HasQuoteLeftAtStart(remain) == QuoteLeft(remain) # -1

HasQuoteLeft(remain) == QuoteLeft(remain) # -1 /\ QuoteLeft(remain) # 0

\* the condition under which the trigger must be wrapped
NeedsWrap(trig, opts) == Len(Split(trig)) > 1 \/ Contains(opts, "r")

\* trig[0] != trig[-1], for a non-empty trig
BadWrap(trig) == trig[1] # trig[Len(trig)]

\* trig[1:-1]
Unwrap(trig) == PyDropLast(PyFrom(trig, 1), 1)

\* The header parser is a pipeline: each step takes the remainder left by the
\* step before it.

\* the parsed header: raises is the IndexError of trig[0] on an empty candidate
TriggerStep(snip, opts, context, descr, trig) ==
    [snip |-> snip, opts |-> opts, context |-> context, descr |-> descr,
     candidate |-> trig,
     wrapped |-> NeedsWrap(trig, opts),
     raises |-> NeedsWrap(trig, opts) /\ trig = <<>>]

\* remain.strip() ends with a quote and has an inner quote: the description
HasDescription(remain) ==
    /\ Len(Split(remain)) > 1
    /\ remain[Len(remain)] = QUOTE
    /\ HasQuoteLeft(remain)

\* Get and strip description if it exists; The rest is the trigger
DescriptionStep(snip, opts, context, remain) ==
    IF HasDescription(remain)
    THEN TriggerStep(snip, opts, context, PyFrom(remain, QuoteLeft(remain)),
                     Strip(PyUpTo(remain, QuoteLeft(remain))))
    ELSE TriggerStep(snip, opts, context, <<>>, Strip(remain))

\* if "e" in opts and not context: the right-most quoted segment is the context
ContextStep(snip, opts, context, remain) ==
    IF Contains(opts, "e") /\ ~Truthy(context) /\ HasQuoteLeft(remain)
    THEN DescriptionStep(snip, opts,
                         PyStr(StripChar(PyFrom(remain, QuoteLeft(remain)), QUOTE)),
                         Strip(PyUpTo(remain, QuoteLeft(remain))))
    ELSE DescriptionStep(snip, opts, context, Strip(remain))

\* Get and strip options if they exist
OptionsStep(snip, context, remain, words) ==
    IF HasOpts(words)
    THEN ContextStep(snip, words[Len(words)], context,
                     RStrip(PyDropLast(remain, Len(words[Len(words)]) + 1)))
    ELSE ContextStep(snip, <<>>, context, remain)

\* remain = line[len(snip):].strip(); words = remain.split()
RemainStep(snip, context, remain) == OptionsStep(snip, context, remain, Split(remain))

\* snip, opts, context, descr and the trigger candidate of a header line
ParseHeader(line, context) ==
    RemainStep(Split(line)[1], context, Strip(PyFrom(line, Len(Split(line)[1]))))

(***************************************************************************)
(* UltiSnips.text.LineIterator over the list of lines data: idx is its     *)
(* line_index property, the 1-based index of the line produced last, which *)
(* stays at the last line once the cursor is exhausted.                    *)
(***************************************************************************)
lines_has_next(data, idx) == idx < Len(data)

\* next(lines), after which line_index is idx + 1
lines_next(data, idx) == data[idx + 1]

(***************************************************************************)
(* _handle_snippet_or_global: the body collector.  data is the list of     *)
(* lines of the cursor and idx the number of lines already produced.       *)
(***************************************************************************)
\* FindEnd comparing the line stripped on both sides
RECURSIVE FindEndStripped(_, _, _)
FindEndStripped(data, idx, end) ==
    IF ~lines_has_next(data, idx) THEN [found_end |-> FALSE, line_index |-> idx]
    ELSE IF Strip(lines_next(data, idx)) = end
    THEN [found_end |-> TRUE, line_index |-> idx + 1]
    ELSE FindEndStripped(data, idx + 1, end)

\* `for line in lines`: the cursor after the loop, and whether it left by the
\* break on a line that equals end once right-stripped
RECURSIVE FindEnd(_, _, _)
FindEnd(data, idx, end) ==
    IF ~lines_has_next(data, idx) THEN [found_end |-> FALSE, line_index |-> idx]
    ELSE IF RStrip(lines_next(data, idx)) = end
    THEN [found_end |-> TRUE, line_index |-> idx + 1]
    ELSE FindEnd(data, idx + 1, end)

\* Chomp that leaves the last newline in place
ChompNothing(content) == content

\* content = content[:-1]
Chomp(content) == PyDropLast(content, 1)

\* BodyUpTo taking the end of the file for the end of the block
BodyUpToEof(data, idx, loop) ==
    IF loop.found_end
    THEN [found_end |-> TRUE, line_index |-> loop.line_index,
          content |-> Chomp(Concat(SubSeq(data, idx + 1, loop.line_index - 1)))]
    ELSE [found_end |-> TRUE, line_index |-> loop.line_index,
          content |-> Chomp(Concat(SubSeq(data, idx + 1, loop.line_index)))]

\* found_end, content and the position of the cursor after the loop
BodyUpTo(data, idx, loop) ==
    IF loop.found_end
    THEN [found_end |-> TRUE, line_index |-> loop.line_index,
          content |-> Chomp(Concat(SubSeq(data, idx + 1, loop.line_index - 1)))]
    ELSE [found_end |-> FALSE, line_index |-> loop.line_index,
          content |-> Concat(SubSeq(data, idx + 1, loop.line_index))]

CollectBody(data, idx, end) == BodyUpTo(data, idx, FindEnd(data, idx, end))

(***************************************************************************)
(* The globals table: defaultdict(list), a function from the keys met so   *)
(* far to the list of bodies.                                              *)
(***************************************************************************)
EmptyTable == [k \in {} |-> <<>>]

\* python_globals[trig].append(content)
TableAppend(table, trig, content) ==
    [k \in (DOMAIN table) \cup {trig} |->
        IF k = trig
        THEN Append(IF trig \in DOMAIN table THEN table[trig] ELSE <<>>, content)
        ELSE table[k]]

\* UltiSnipsSnippetDefinition(priority, trig, content, descr, opts,
\*   python_globals, location, context, pre_expand); the globals table and the
\* actions dict are passed by reference
UltiSnipsSnippetDefinition(priority, trig, content, descr, opts, globals, location, context, actions) ==
    [kind |-> "definition", priority |-> priority, trigger |-> trig,
     value |-> content, description |-> descr, options |-> opts,
     globals |-> globals, location |-> location, context |-> context,
     actions |-> actions]

\* PassGlobals handing a copy of the table to the constructor
PassGlobalsCopy(heap, python_globals) ==
    [heap |-> Append(heap, heap[python_globals]), ref |-> Len(heap) + 1]

\* python_globals as an argument of the constructor: the reference is passed,
\* no object is created
PassGlobals(heap, python_globals) == [heap |-> heap, ref |-> python_globals]

\* the name of the end marker in the message of a missing end
MissingEndFormat(snip) == "Missing 'endsnippet' for %r"

(***************************************************************************)
(* _handle_snippet_or_global(filename, line, lines, python_globals,        *)
(* priority, pre_expand, context).  lines is (data, idx); globals_heap     *)
(* holds the table python_globals refers to.  The result is the returned   *)
(* value (None after a global block), the cursor and the heap afterwards.  *)
(***************************************************************************)
\* AfterBody reading lines.line_index for the location once the body was
\* collected
AfterBodyLocationAtEnd(h, trig, body, idx, heap, python_globals, priority, pre_expand) ==
    IF ~body.found_end
    THEN [ret |-> [type |-> "error",
                   data |-> MsgLine(MissingEndFormat(h.snip), trig, body.line_index)],
          line_index |-> body.line_index, heap |-> heap]
    ELSE IF h.snip = KW_global
    THEN [ret |-> [type |-> "None", data |-> None],
          line_index |-> body.line_index,
          heap |-> [heap EXCEPT ![python_globals] = TableAppend(@, trig, body.content)]]
    ELSE IF h.snip = KW_snippet
    THEN [ret |-> [type |-> "snippet",
                   data |-> UltiSnipsSnippetDefinition(priority, trig,
                                body.content, h.descr, h.opts,
                                PassGlobals(heap, python_globals).ref,
                                body.line_index, h.context, pre_expand)],
          line_index |-> body.line_index,
          heap |-> PassGlobals(heap, python_globals).heap]
    ELSE [ret |-> [type |-> "error",
                   data |-> MsgLine("Invalid snippet type: '%s'", h.snip,
                                    body.line_index)],
          line_index |-> body.line_index, heap |-> heap]

\* lines 132-151: the value returned once the body was collected
AfterBody(h, trig, body, idx, heap, python_globals, priority, pre_expand) ==
    IF ~body.found_end
    THEN [ret |-> [type |-> "error",
                   data |-> MsgLine(MissingEndFormat(h.snip), trig, body.line_index)],
          line_index |-> body.line_index, heap |-> heap]
    ELSE IF h.snip = KW_global
    THEN [ret |-> [type |-> "None", data |-> None],
          line_index |-> body.line_index,
          heap |-> [heap EXCEPT ![python_globals] = TableAppend(@, trig, body.content)]]
    ELSE IF h.snip = KW_snippet
    THEN [ret |-> [type |-> "snippet",
                   data |-> UltiSnipsSnippetDefinition(priority, trig,
                                body.content, h.descr, h.opts,
                                PassGlobals(heap, python_globals).ref,
                                idx, h.context, pre_expand)],
          line_index |-> body.line_index,
          heap |-> PassGlobals(heap, python_globals).heap]
    ELSE [ret |-> [type |-> "error",
                   data |-> MsgLine("Invalid snippet type: '%s'", h.snip,
                                    body.line_index)],
          line_index |-> body.line_index, heap |-> heap]

\* AfterHeader skipping the block of a rejected header
AfterHeaderSkipsBlock(h, data, idx, heap, python_globals, priority, pre_expand) ==
    IF h.raises
    THEN [ret |-> [type |-> "raise", data |-> None],
          line_index |-> idx, heap |-> heap]
    ELSE IF h.wrapped /\ BadWrap(h.candidate)
    THEN [ret |-> [type |-> "error",
                   data |-> MsgLine("Invalid multiword trigger: '%s'",
                                    h.candidate, idx)],
          line_index |-> FindEnd(data, idx, KW_end \o h.snip).line_index,
          heap |-> heap]
    ELSE AfterBody(h, IF h.wrapped THEN Unwrap(h.candidate) ELSE h.candidate,
                   CollectBody(data, idx, KW_end \o h.snip),
                   idx, heap, python_globals, priority, pre_expand)

\* lines 116-130: the quoting check of the trigger, then the body collector;
\* idx is start_line_index
AfterHeader(h, data, idx, heap, python_globals, priority, pre_expand) ==
    IF h.raises
    THEN [ret |-> [type |-> "raise", data |-> None],
          line_index |-> idx, heap |-> heap]
    ELSE IF h.wrapped /\ BadWrap(h.candidate)
    THEN [ret |-> [type |-> "error",
                   data |-> MsgLine("Invalid multiword trigger: '%s'",
                                    h.candidate, idx)],
          line_index |-> idx, heap |-> heap]
    ELSE AfterBody(h, IF h.wrapped THEN Unwrap(h.candidate) ELSE h.candidate,
                   CollectBody(data, idx, KW_end \o h.snip),
                   idx, heap, python_globals, priority, pre_expand)

handle_snippet_or_global(line, data, idx, heap, python_globals, priority, pre_expand, context) ==
    AfterHeader(ParseHeader(line, context), data, idx, heap, python_globals,
                priority, pre_expand)

(***************************************************************************)
(* Lines of snippet files, as LineIterator produces them: each ends with   *)
(* its newline, except a last line of a file that lacks one.               *)
(***************************************************************************)
\* 'snippet a\n'
L_snippet_a == <<"s", "n", "i", "p", "p", "e", "t", " ", "a", "\n">>

\* 'snippet a b\n'
L_snippet_a_b == <<"s", "n", "i", "p", "p", "e", "t", " ", "a", " ", "b", "\n">>

\* 'snippet "a b"\n'
L_snippet_qab == <<"s", "n", "i", "p", "p", "e", "t", " ", "\"", "a", " ", "b", "\"", "\n">>

\* 'snippet a "d" r\n'
L_snippet_r == <<"s", "n", "i", "p", "p", "e", "t", " ", "a", " ", "\"", "d", "\"", " ", "r", "\n">>

\* 'snippet "a" "d" e\n'
L_snippet_e == <<"s", "n", "i", "p", "p", "e", "t", " ", "\"", "a", "\"", " ", "\"", "d", "\"", " ", "e", "\n">>

\* 'global p\n'
L_global_p == <<"g", "l", "o", "b", "a", "l", " ", "p", "\n">>

\* 'endsnippet\n'
L_endsnippet == <<"e", "n", "d", "s", "n", "i", "p", "p", "e", "t", "\n">>

\* 'endglobal\n'
L_endglobal == <<"e", "n", "d", "g", "l", "o", "b", "a", "l", "\n">>

\* ' endsnippet\n'
L_indented_endsnippet == <<" ", "e", "n", "d", "s", "n", "i", "p", "p", "e", "t", "\n">>

\* 'x\n'
L_x == <<"x", "\n">>

\* 'y\n'
L_y == <<"y", "\n">>

\* '\n'
L_blank == <<"\n">>

\* '  \n'
L_spaces == <<" ", " ", "\n">>

\* '# c\n'
L_comment == <<"#", " ", "c", "\n">>

\* 'priority 5\n'
L_priority_5 == <<"p", "r", "i", "o", "r", "i", "t", "y", " ", "5", "\n">>

\* 'priority -2 x\n'
L_priority_m2 == <<"p", "r", "i", "o", "r", "i", "t", "y", " ", "-", "2", " ", "x", "\n">>

\* 'priority x\n'
L_priority_x == <<"p", "r", "i", "o", "r", "i", "t", "y", " ", "x", "\n">>

\* 'priority\n'
L_priority_none == <<"p", "r", "i", "o", "r", "i", "t", "y", "\n">>

\* 'context "c"\n'
L_context_c == <<"c", "o", "n", "t", "e", "x", "t", " ", "\"", "c", "\"", "\n">>

\* 'context\n'
L_context_none == <<"c", "o", "n", "t", "e", "x", "t", "\n">>

\* 'extends f\n'
L_extends_f == <<"e", "x", "t", "e", "n", "d", "s", " ", "f", "\n">>

\* 'extends\n'
L_extends_none == <<"e", "x", "t", "e", "n", "d", "s", "\n">>

\* 'clearsnippets\n'
L_clearsnippets == <<"c", "l", "e", "a", "r", "s", "n", "i", "p", "p", "e", "t", "s", "\n">>

\* 'clearsnippets f g\n'
L_clearsnippets_f_g == <<"c", "l", "e", "a", "r", "s", "n", "i", "p", "p", "e", "t", "s", " ", "f", " ", "g", "\n">>

\* 'pre_expand "x"\n'
L_pre_expand_x == <<"p", "r", "e", "_", "e", "x", "p", "a", "n", "d", " ", "\"", "x", "\"", "\n">>

\* 'pre_expand "y"\n'
L_pre_expand_y == <<"p", "r", "e", "_", "e", "x", "p", "a", "n", "d", " ", "\"", "y", "\"", "\n">>

\* 'post_jump "x"\n'
L_post_jump_x == <<"p", "o", "s", "t", "_", "j", "u", "m", "p", " ", "\"", "x", "\"", "\n">>

\* 'post_jump\n'
L_post_jump_none == <<"p", "o", "s", "t", "_", "j", "u", "m", "p", "\n">>

\* 'endsnippet'
L_endsnippet_eof == <<"e", "n", "d", "s", "n", "i", "p", "p", "e", "t">>

(***************************************************************************)
(* The files that are parsed.  A file is a concatenation of at most        *)
(* MaxChunks chunks, a chunk being one line or a short run of lines,       *)
(* optionally followed by a last line without a newline; or a single       *)
(* snippet block whose header is any string of at most MaxHeaderLen        *)
(* characters of HeaderAlphabet.                                           *)
(***************************************************************************)
Chunks ==
    { <<L_snippet_a>>, <<L_global_p>>, <<L_endglobal>>, <<L_x>>,
      <<L_blank, L_comment>>, <<L_priority_5>>, <<L_context_c>>,
      <<L_context_none>>, <<L_extends_f>>, <<L_clearsnippets_f_g>>,
      <<L_pre_expand_x>>, <<L_post_jump_none>>,
      <<L_snippet_a, L_endsnippet>>,
      <<L_snippet_a, L_x, L_priority_m2, L_endsnippet>>,
      <<L_snippet_qab, L_x, L_blank, L_y, L_endsnippet>>,
      <<L_snippet_r, L_indented_endsnippet, L_endglobal, L_endsnippet>>,
      <<L_snippet_e, L_endsnippet>>,
      <<L_snippet_a_b, L_x, L_endsnippet>>,
      <<L_global_p, L_x, L_endglobal, L_snippet_a, L_endsnippet>>,
      <<L_global_p, L_y, L_snippet_a, L_endsnippet, L_endglobal>>,
      <<L_priority_5, L_priority_x, L_clearsnippets>>,
      <<L_priority_m2, L_spaces, L_priority_none>>,
      <<L_pre_expand_y, L_post_jump_x, L_comment, L_extends_none>>,
      <<L_pre_expand_x, L_pre_expand_y, L_snippet_a, L_endsnippet, L_post_jump_x>> }

LastLines == { <<>>, <<L_endsnippet_eof>> }

\* the files made of n chunks
ChunkFiles(n) == { Concat(cs) \o last : cs \in [1..n -> Chunks], last \in LastLines }

HeaderAlphabet == {" ", QUOTE, "e", "r"}

\* the files made of one block whose header has n characters after the keyword
HeaderFiles(n) ==
    { << KW_snippet \o <<" ">> \o t \o <<"\n">>, L_x, L_endsnippet >> :
        t \in [1..n -> HeaderAlphabet] }

(***************************************************************************)
(* The state of one run of _parse_snippets_file(data, filename).           *)
(***************************************************************************)
VARIABLES
    data,              \* LineIterator._lines: the lines of the file
    line_index,        \* LineIterator.line_index: the lines produced so far
    python_globals,    \* address of the globals table in globals_heap
    globals_heap,      \* the defaultdict objects
    current_priority,
    actions,           \* address of the current actions dict in actions_heap
    actions_heap,      \* the dict objects
    context,           \* None, a str, or the tuple of a failed handle_context
    events,            \* the events yielded so far
    raised,            \* an exception left the generator
    consumer,          \* history: who took each produced line
    origin             \* history: the dispatched line that yielded each event

vars == << data, line_index, python_globals, globals_heap, current_priority,
           actions, actions_heap, context, events, raised, consumer, origin >>

EmptyDict == [k \in {} |-> None]

\* actions[head] = value
DictSet(dict, key, value) ==
    [k \in (DOMAIN dict) \cup {key} |-> IF k = key THEN value ELSE dict[k]]

Init ==
    /\ \/ \E n \in 0..MaxChunks : data \in ChunkFiles(n)
       \/ \E n \in 1..MaxHeaderLen : data \in HeaderFiles(n)
    /\ line_index = 0
    /\ python_globals = 1
    /\ globals_heap = << EmptyTable >>
    /\ current_priority = 0
    /\ actions = 1
    /\ actions_heap = << EmptyDict >>
    /\ context = None
    /\ events = <<>>
    /\ raised = FALSE
    /\ consumer = <<>>
    /\ origin = <<>>

(***************************************************************************)
(* One iteration of `for line in lines` of _parse_snippets_file.           *)
(***************************************************************************)
\* the loop has a next line
HasNext == ~raised /\ lines_has_next(data, line_index)

\* line = next(lines), and lines.line_index afterwards
line == lines_next(data, line_index)

cur == line_index + 1

head == head_tail(line).head

tail == head_tail(line).tail

Yield(event) ==
    /\ events' = Append(events, event)
    /\ origin' = Append(origin, cur)

NoYield == UNCHANGED << events, origin >>

\* the dispatcher took line cur and the body collector the n lines after it
Took(n) == consumer' = consumer \o << "dispatcher" >> \o [i \in 1..n |-> "collector"]

\* ResetPending without `context = None`
ResetPendingKeepContext ==
    /\ actions_heap' = Append(actions_heap, EmptyDict)
    /\ actions' = Len(actions_heap) + 1
    /\ UNCHANGED context

\* ResetPending emptying the dict in place: actions.clear(); context = None
ResetPendingClearsInPlace ==
    /\ actions_heap' = [actions_heap EXCEPT ![actions] = EmptyDict]
    /\ actions' = actions
    /\ context' = None

\* actions = {}; context = None
ResetPending ==
    /\ actions_heap' = Append(actions_heap, EmptyDict)
    /\ actions' = Len(actions_heap) + 1
    /\ context' = None

\* if not line.strip(): continue
SkipBlank ==
    /\ HasNext
    /\ Strip(line) = <<>>
    /\ line_index' = cur
    /\ Took(0)
    /\ NoYield
    /\ UNCHANGED << data, python_globals, globals_heap, current_priority,
                    actions, actions_heap, context, raised >>

\* Returned with the body collector reading a cursor of its own: the
\* dispatcher goes on below the header
ReturnedRewinds(r) ==
    /\ line_index' = cur
    /\ globals_heap' = r.heap
    /\ Took(0)
    /\ IF r.ret.type = "raise"
       THEN /\ raised' = TRUE
            /\ NoYield
            /\ UNCHANGED << actions, actions_heap, context >>
       ELSE /\ UNCHANGED raised
            /\ ResetPending
            /\ IF r.ret.type = "None" THEN NoYield ELSE Yield(r.ret)

\* Returned without `if snippet is not None`
ReturnedYieldsNone(r) ==
    /\ line_index' = r.line_index
    /\ globals_heap' = r.heap
    /\ Took(r.line_index - cur)
    /\ IF r.ret.type = "raise"
       THEN /\ raised' = TRUE
            /\ NoYield
            /\ UNCHANGED << actions, actions_heap, context >>
       ELSE /\ UNCHANGED raised
            /\ ResetPending
            /\ Yield(r.ret)

\* lines 182-185 after the call returned r; an exception leaves the generator
\* before the reset
Returned(r) ==
    /\ line_index' = r.line_index
    /\ globals_heap' = r.heap
    /\ Took(r.line_index - cur)
    /\ IF r.ret.type = "raise"
       THEN /\ raised' = TRUE
            /\ NoYield
            /\ UNCHANGED << actions, actions_heap, context >>
       ELSE /\ UNCHANGED raised
            /\ ResetPending
            /\ IF r.ret.type = "None" THEN NoYield ELSE Yield(r.ret)

\* if head in ("snippet", "global")
SnippetOrGlobal ==
    /\ HasNext
    /\ Strip(line) # <<>>
    /\ head \in {KW_snippet, KW_global}
    /\ Returned(handle_snippet_or_global(line, data, cur, globals_heap,
                    python_globals, current_priority, actions, context))
    /\ UNCHANGED << data, python_globals, current_priority >>

\* elif head == "extends"
Extends ==
    /\ HasNext
    /\ Strip(line) # <<>>
    /\ head = KW_extends
    /\ Yield([type |-> handle_extends(tail, cur).head,
              data |-> handle_extends(tail, cur).value])
    /\ line_index' = cur
    /\ Took(0)
    /\ UNCHANGED << data, python_globals, globals_heap, current_priority,
                    actions, actions_heap, context, raised >>

\* clearsnippets_event carrying the rest of the line as one item
clearsnippets_event_unsplit(priority, rest) ==
    [type |-> "clearsnippets",
     data |-> [kind |-> "clear", priority |-> priority, items |-> << rest >>]]

\* "clearsnippets", (current_priority, tail.split())
clearsnippets_event(priority, rest) ==
    [type |-> "clearsnippets",
     data |-> [kind |-> "clear", priority |-> priority, items |-> Split(rest)]]

\* elif head == "clearsnippets"
Clearsnippets ==
    /\ HasNext
    /\ Strip(line) # <<>>
    /\ head = KW_clearsnippets
    /\ Yield(clearsnippets_event(current_priority, tail))
    /\ line_index' = cur
    /\ Took(0)
    /\ UNCHANGED << data, python_globals, globals_heap, current_priority,
                    actions, actions_heap, context, raised >>

\* elif head == "context"
Context ==
    /\ HasNext
    /\ Strip(line) # <<>>
    /\ head = KW_context
    /\ context' = handle_context(tail, cur).value
    /\ IF handle_context(tail, cur).head = "error"
       THEN Yield([type |-> "error", data |-> PyStr(tail)])
       ELSE NoYield
    /\ line_index' = cur
    /\ Took(0)
    /\ UNCHANGED << data, python_globals, globals_heap, current_priority,
                    actions, actions_heap, raised >>

\* set_priority reading the last token of the rest instead of the first
set_priority_last_token(current, rest) ==
    IF Split(rest) # <<>> /\ IsInt(Split(rest)[Len(Split(rest))])
    THEN [ok |-> TRUE, priority |-> IntVal(Split(rest)[Len(Split(rest))])]
    ELSE [ok |-> FALSE, priority |-> current]

\* set_priority falling back to the initial priority when the parse fails
set_priority_reset_on_error(current, rest) ==
    IF Split(rest) # <<>> /\ IsInt(Split(rest)[1])
    THEN [ok |-> TRUE, priority |-> IntVal(Split(rest)[1])]
    ELSE [ok |-> FALSE, priority |-> 0]

\* try: current_priority = int(tail.split()[0])
\* except (ValueError, IndexError): the assignment did not happen
set_priority(current, rest) ==
    IF Split(rest) # <<>> /\ IsInt(Split(rest)[1])
    THEN [ok |-> TRUE, priority |-> IntVal(Split(rest)[1])]
    ELSE [ok |-> FALSE, priority |-> current]

\* elif head == "priority"
Priority ==
    /\ HasNext
    /\ Strip(line) # <<>>
    /\ head = KW_priority
    /\ current_priority' = set_priority(current_priority, tail).priority
    /\ IF set_priority(current_priority, tail).ok
       THEN NoYield
       ELSE Yield([type |-> "error",
                   data |-> MsgLine("Invalid priority %r", tail, cur)])
    /\ line_index' = cur
    /\ Took(0)
    /\ UNCHANGED << data, python_globals, globals_heap, actions, actions_heap,
                    context, raised >>

\* elif head in ["pre_expand", "post_expand", "post_jump", "post_finish"]
Action ==
    /\ HasNext
    /\ Strip(line) # <<>>
    /\ head \in ActionKeywords
    /\ IF handle_action(head, tail, cur).head = "error"
       THEN /\ Yield([type |-> "error", data |-> handle_action(head, tail, cur).value])
            /\ UNCHANGED actions_heap
       ELSE /\ NoYield
            /\ actions_heap' = [actions_heap EXCEPT ![actions] =
                    DictSet(@, head, handle_action(head, tail, cur).value)]
    /\ line_index' = cur
    /\ Took(0)
    /\ UNCHANGED << data, python_globals, globals_heap, current_priority,
                    actions, context, raised >>

Keywords ==
    {KW_snippet, KW_global, KW_extends, KW_clearsnippets, KW_context, KW_priority}
        \cup ActionKeywords

\* NotComment without the test of the '#'
NotCommentAny(h) == h # <<>>

\* head and not head.startswith("#")
NotComment(h) == h # <<>> /\ h[1] # "#"

\* elif head and not head.startswith("#")
InvalidLine ==
    /\ HasNext
    /\ Strip(line) # <<>>
    /\ head \notin Keywords
    /\ NotComment(head)
    /\ Yield([type |-> "error",
              data |-> MsgLine("Invalid line %r", RStrip(line), cur)])
    /\ line_index' = cur
    /\ Took(0)
    /\ UNCHANGED << data, python_globals, globals_heap, current_priority,
                    actions, actions_heap, context, raised >>

\* no branch of the chain is taken: a line whose first word starts with '#'
Comment ==
    /\ HasNext
    /\ Strip(line) # <<>>
    /\ head \notin Keywords
    /\ ~NotComment(head)
    /\ line_index' = cur
    /\ Took(0)
    /\ NoYield
    /\ UNCHANGED << data, python_globals, globals_heap, current_priority,
                    actions, actions_heap, context, raised >>

Next ==
    \/ SkipBlank
    \/ SnippetOrGlobal
    \/ Extends
    \/ Clearsnippets
    \/ Context
    \/ Priority
    \/ Action
    \/ InvalidLine
    \/ Comment

Spec == Init /\ [][Next]_vars

\* the generator has returned
Finished == ~raised /\ line_index = Len(data)

(***************************************************************************)
(* Vocabulary of the properties: what the history says about a line, read  *)
(* from the text of the file.                                              *)
(***************************************************************************)
\* line j was handed to the top-level scan
Dispatched(j) == j \in 1..Len(consumer) /\ consumer[j] = "dispatcher"

\* line j was taken by the body collector
Collected(j) == j \in 1..Len(consumer) /\ consumer[j] = "collector"

\* the first word of line j is kw
FirstWordIs(j, kw) == Split(data[j]) # <<>> /\ Split(data[j])[1] = kw

\* line j is a priority directive whose first argument is an integer
GoodPriorityLine(j) ==
    /\ Dispatched(j)
    /\ FirstWordIs(j, KW_priority)
    /\ Len(Split(data[j])) >= 2
    /\ IsInt(Split(data[j])[2])

\* the value of the last good priority directive above line h, 0 without one
RECURSIVE PriorityAbove(_)
PriorityAbove(h) ==
    IF h <= 1 THEN 0
    ELSE IF GoodPriorityLine(h - 1) THEN IntVal(Split(data[h - 1])[2])
    ELSE PriorityAbove(h - 1)

IsSnippet(i) == events[i].type = "snippet"

IsError(i) == events[i].type = "error"

\* event i is an error whose data is a (message, line) pair of format fmt
IsErrorOf(i, fmt) ==
    /\ IsError(i)
    /\ events[i].data.kind = "tuple"
    /\ events[i].data.msg = fmt

(***************************************************************************)
(* C1.  Every snippet event carries the priority set by the last           *)
(* successful priority directive dispatched above its header line, 0 when  *)
(* there is none: priority lines below the header (its own body included)  *)
(* and blocks that closed in between do not change it.                     *)
(***************************************************************************)
C1_PriorityAtHeader ==
    \A i \in 1..Len(events) :
        IsSnippet(i) => events[i].data.priority = PriorityAbove(origin[i])

\* a snippet of priority 5 whose own body holds a priority line
C1_Witness ==
    \E i \in 1..Len(events) :
        /\ IsSnippet(i)
        /\ events[i].data.priority = 5
        /\ \E j \in (origin[i] + 1)..Len(consumer) :
               Collected(j) /\ FirstWordIs(j, KW_priority)

(***************************************************************************)
(* C7.  A priority directive whose first argument is missing or is not an  *)
(* integer yields exactly one 'Invalid priority' error and leaves the      *)
(* running priority as it was, so that every snippet and clearsnippets     *)
(* event carries the priority of the last good directive above it.         *)
(***************************************************************************)
BadPriorityNext ==
    /\ HasNext
    /\ FirstWordIs(cur, KW_priority)
    /\ ~(Len(Split(line)) >= 2 /\ IsInt(Split(line)[2]))

\* the events that carry a priority carry the one of the last good directive
CarriedPriorities ==
    \A i \in 1..Len(events) :
        events[i].type \in {"snippet", "clearsnippets"} =>
            events[i].data.priority = PriorityAbove(origin[i])

C7_BadPriorityKeeps ==
    /\ [][BadPriorityNext =>
            /\ current_priority' = current_priority
            /\ Len(events') = Len(events) + 1
            /\ events'[Len(events')].type = "error"
            /\ events'[Len(events')].data.kind = "tuple"
            /\ events'[Len(events')].data.msg = "Invalid priority %r"
            /\ SubSeq(events', 1, Len(events)) = events]_vars
    /\ []CarriedPriorities

\* after priority 5 a bad priority directive was reported, and a later
\* clearsnippets or snippet event still carries 5
C7_Witness ==
    \E i \in 1..Len(events) :
        /\ IsErrorOf(i, "Invalid priority %r")
        /\ current_priority = 5
        /\ \E k \in (i + 1)..Len(events) :
               /\ events[k].type \in {"snippet", "clearsnippets"}
               /\ events[k].data.priority = 5

(***************************************************************************)
(* C2.  All snippets of a file share one globals table: in every state the *)
(* table reached through an emitted snippet is the current table, and a    *)
(* step only appends bodies to the lists of the table, so a snippet        *)
(* emitted between two global blocks of one key ends with both bodies      *)
(* under that key in file order.                                           *)
(***************************************************************************)
IsPrefix(s, t) == Len(s) <= Len(t) /\ SubSeq(t, 1, Len(s)) = s

SnippetsSeeCurrentTable ==
    \A i \in 1..Len(events) :
        IsSnippet(i) =>
            globals_heap[events[i].data.globals] = globals_heap[python_globals]

TableOnlyGrows ==
    \A k \in DOMAIN globals_heap[python_globals] :
        /\ k \in DOMAIN globals_heap'[python_globals']
        /\ IsPrefix(globals_heap[python_globals][k], globals_heap'[python_globals'][k])

C2_SharedGlobals == []SnippetsSeeCurrentTable /\ [][TableOnlyGrows]_vars

\* the file is parsed; a snippet emitted between two global blocks of key p
\* sees the body of the first and then the body of the second
C2_Witness ==
    /\ Finished
    /\ \E i \in 1..Len(events) :
        /\ IsSnippet(i)
        /\ \E g1 \in 1..(origin[i] - 1) : Dispatched(g1) /\ FirstWordIs(g1, KW_global)
        /\ \E g2 \in (origin[i] + 1)..Len(data) : Dispatched(g2) /\ FirstWordIs(g2, KW_global)
        /\ <<"p">> \in DOMAIN globals_heap[events[i].data.globals]
        /\ Len(globals_heap[events[i].data.globals][<<"p">>]) = 2
        /\ globals_heap[events[i].data.globals][<<"p">>][1] = <<"x">>
        /\ globals_heap[events[i].data.globals][<<"p">>][2][1] = "y"

(***************************************************************************)
(* C3.  The step that handles a snippet or global header line leaves the   *)
(* pending actions empty and the pending context None, whatever the block  *)
(* yields; so the actions of an emitted snippet, and its context when the  *)
(* options have no `e`, come from directives dispatched between the        *)
(* previous header line and its own.                                       *)
(***************************************************************************)
IsHeaderLine(j) == FirstWordIs(j, KW_snippet) \/ FirstWordIs(j, KW_global)

HeaderNext == HasNext /\ IsHeaderLine(cur)

\* the last header line dispatched above line h, 0 without one
RECURSIVE PrevHeader(_)
PrevHeader(h) ==
    IF h <= 1 THEN 0
    ELSE IF Dispatched(h - 1) /\ IsHeaderLine(h - 1) THEN h - 1
    ELSE PrevHeader(h - 1)

\* a directive of keyword kw was dispatched between the header above h and h
DirectiveSince(h, kw) ==
    \E j \in (PrevHeader(h) + 1)..(h - 1) : Dispatched(j) /\ FirstWordIs(j, kw)

PendingFromOwnDirectives ==
    \A i \in 1..Len(events) :
        IsSnippet(i) =>
            /\ \A k \in DOMAIN actions_heap[events[i].data.actions] :
                   DirectiveSince(origin[i], k)
            /\ (events[i].data.context # None /\ ~Contains(events[i].data.options, "e"))
                   => DirectiveSince(origin[i], KW_context)

C3_PendingReset ==
    /\ [][HeaderNext => (actions_heap'[actions'] = EmptyDict /\ context' = None)]_vars
    /\ []PendingFromOwnDirectives

\* a header failed on its trigger right after a context directive set the
\* pending context, and the pending context is None again
C3_Witness ==
    \E i \in 1..Len(events) :
        /\ IsErrorOf(i, "Invalid multiword trigger: '%s'")
        /\ origin[i] >= 2
        /\ line_index = origin[i]
        /\ Dispatched(origin[i] - 1)
        /\ FirstWordIs(origin[i] - 1, KW_context)
        /\ Len(Split(data[origin[i] - 1])) >= 2
        /\ context = None

(***************************************************************************)
(* C4.  A block whose header is accepted and below which no line equals    *)
(* its end marker yields one "Missing 'endsnippet'" error and nothing      *)
(* else, adds nothing to the globals table and leaves the cursor at the    *)
(* end of the file; such an error is the last event of the stream.         *)
(***************************************************************************)
\* the quoting check accepts the header line that comes next
HeaderAcceptedNext ==
    ~(ParseHeader(line, context).wrapped /\ BadWrap(ParseHeader(line, context).candidate))

NoEndBelow(kw) ==
    \A j \in (cur + 1)..Len(data) : RStrip(data[j]) # KW_end \o kw

UnclosedBlockNext(kw) ==
    HasNext /\ FirstWordIs(cur, kw) /\ HeaderAcceptedNext /\ NoEndBelow(kw)

MissingEndOnly ==
    /\ Len(events') = Len(events) + 1
    /\ SubSeq(events', 1, Len(events)) = events
    /\ events'[Len(events')].type = "error"
    /\ events'[Len(events')].data.kind = "tuple"
    /\ events'[Len(events')].data.msg = "Missing 'endsnippet' for %r"
    /\ globals_heap' = globals_heap
    /\ line_index' = Len(data)

MissingEndIsLast ==
    \A i \in 1..Len(events) :
        IsErrorOf(i, "Missing 'endsnippet' for %r") =>
            i = Len(events) /\ line_index = Len(data)

C4_MissingEnd ==
    /\ [][(UnclosedBlockNext(KW_snippet) \/ UnclosedBlockNext(KW_global))
            => MissingEndOnly]_vars
    /\ []MissingEndIsLast

\* a global block that was never closed swallowed at least two lines, one of
\* them an `endsnippet`, and the globals table is still empty
C4_Witness ==
    \E i \in 1..Len(events) :
        /\ IsErrorOf(i, "Missing 'endsnippet' for %r")
        /\ FirstWordIs(origin[i], KW_global)
        /\ origin[i] + 2 <= Len(data)
        /\ \E j \in (origin[i] + 1)..Len(data) :
               Collected(j) /\ RStrip(data[j]) = KW_end \o KW_snippet
        /\ globals_heap[python_globals] = EmptyTable

(***************************************************************************)
(* C5.  A snippet header whose trigger candidate has several words, or     *)
(* whose options contain `r`, is accepted only when the candidate is       *)
(* wrapped in two equal characters, and the trigger is then the candidate  *)
(* without those two; otherwise it yields exactly one 'Invalid multiword   *)
(* trigger' error.                                                         *)
(***************************************************************************)
ProperlyWrapped(c) == Len(c) >= 2 /\ c[1] = c[Len(c)]

C5_WrappedTrigger ==
    [][(HasNext /\ FirstWordIs(cur, KW_snippet) /\ ParseHeader(line, context).wrapped)
        => /\ Len(events') = Len(events) + 1
           /\ IF ProperlyWrapped(ParseHeader(line, context).candidate)
              THEN events'[Len(events')].type = "snippet"
                   => events'[Len(events')].data.trigger \in
                        { SubSeq(ParseHeader(line, context).candidate, 2,
                                 Len(ParseHeader(line, context).candidate) - 1) }
              ELSE /\ events'[Len(events')].type = "error"
                   /\ events'[Len(events')].data.msg = "Invalid multiword trigger: '%s'"]_vars

(***************************************************************************)
(* C6.  The body of an emitted snippet is the concatenation of the lines   *)
(* between its header and the first line that equals `endsnippet` once     *)
(* right-stripped, without the final newline: the empty string when there  *)
(* is no such line, and otherwise body + newline = the lines.              *)
(***************************************************************************)
SnippetYielded ==
    /\ HasNext
    /\ FirstWordIs(cur, KW_snippet)
    /\ Len(events') = Len(events) + 1
    /\ events'[Len(events')].type = "snippet"

BodyIsTheLines ==
    /\ line_index' > cur
    /\ RStrip(data[line_index']) = KW_end \o KW_snippet
    /\ \A j \in (cur + 1)..(line_index' - 1) : RStrip(data[j]) # KW_end \o KW_snippet
    /\ IF line_index' = cur + 1
       THEN events'[Len(events')].data.value = <<>>
       ELSE events'[Len(events')].data.value \o <<"\n">> =
                Concat(SubSeq(data, cur + 1, line_index' - 1))

C6_BodyRoundTrip == [][SnippetYielded => BodyIsTheLines]_vars

\* a snippet with a body of three lines, the middle one blank, and a snippet
\* with no body line
C6_Witness ==
    /\ \E i \in 1..Len(events) :
        /\ IsSnippet(i)
        /\ events[i].data.value = <<"x", "\n", "\n", "y">>
    /\ \E i \in 1..Len(events) :
        /\ IsSnippet(i)
        /\ events[i].data.value = <<>>

(***************************************************************************)
(* C8.  Every error event carries a (message, line number) pair whose line *)
(* number is the 1-based index of a line of the file.                      *)
(***************************************************************************)
C8_ErrorsArePairs ==
    \A i \in 1..Len(events) :
        IsError(i) =>
            /\ events[i].data.kind = "tuple"
            /\ events[i].data.line \in 1..Len(data)

(***************************************************************************)
(* C9.  The error of a block that was never closed names the end marker of *)
(* the keyword that opened it, 'endsnippet' or 'endglobal', at the line    *)
(* index reached at exhaustion, the number of lines of the file.           *)
(***************************************************************************)
MissingEndFormats == {"Missing 'endsnippet' for %r", "Missing 'endglobal' for %r"}

C9_MissingEndNamesMarker ==
    \A i \in 1..Len(events) :
        (IsError(i) /\ events[i].data.kind = "tuple"
                    /\ events[i].data.msg \in MissingEndFormats) =>
            /\ events[i].data.line = Len(data)
            /\ events[i].data.msg =
                   IF FirstWordIs(origin[i], KW_global)
                   THEN "Missing 'endglobal' for %r"
                   ELSE "Missing 'endsnippet' for %r"

(***************************************************************************)
(* C10.  The step that takes a blank line, or a line whose first word      *)
(* starts with '#', yields no event and changes neither the running        *)
(* priority, nor the pending actions, nor the pending context, nor the     *)
(* globals table.                                                          *)
(***************************************************************************)
BlankOrCommentNext ==
    HasNext /\ (Strip(line) = <<>> \/ Split(line)[1][1] = "#")

C10_BlankAndCommentFrame ==
    [][BlankOrCommentNext =>
        /\ events' = events
        /\ current_priority' = current_priority
        /\ actions' = actions
        /\ actions_heap' = actions_heap
        /\ context' = context
        /\ python_globals' = python_globals
        /\ globals_heap' = globals_heap]_vars

\* a comment line was just taken while a context and an action were pending,
\* and both still are
C10_Witness ==
    /\ line_index >= 2
    /\ Dispatched(line_index)
    /\ Split(data[line_index]) # <<>>
    /\ Split(data[line_index])[1][1] = "#"
    /\ context.kind = "str"
    /\ DOMAIN actions_heap[actions] # {}
    /\ events = <<>>

(***************************************************************************)
(* C11.  The step that takes a `clearsnippets` line appends exactly one    *)
(* clearsnippets event, which carries the running priority and the         *)
(* whitespace-separated words that follow the keyword (none: the empty     *)
(* list), and changes neither the running priority, nor the pending        *)
(* actions, nor the pending context, nor the globals table.                *)
(***************************************************************************)
ClearsnippetsNext == HasNext /\ FirstWordIs(cur, KW_clearsnippets)

C11_Clearsnippets ==
    [][ClearsnippetsNext =>
        /\ Len(events') = Len(events) + 1
        /\ SubSeq(events', 1, Len(events)) = events
        /\ events'[Len(events')].type = "clearsnippets"
        /\ events'[Len(events')].data.priority = current_priority
        /\ events'[Len(events')].data.items = Tail(Split(line))
        /\ current_priority' = current_priority
        /\ actions' = actions
        /\ actions_heap' = actions_heap
        /\ context' = context
        /\ python_globals' = python_globals
        /\ globals_heap' = globals_heap]_vars

\* a clearsnippets event with two items, and a later one of priority 5 with
\* the empty list
C11_Witness ==
    \E i \in 1..Len(events) :
        /\ events[i].type = "clearsnippets"
        /\ events[i].data.items = << <<"f">>, <<"g">> >>
        /\ \E k \in (i + 1)..Len(events) :
               /\ events[k].type = "clearsnippets"
               /\ events[k].data.priority = 5
               /\ events[k].data.items = <<>>

(***************************************************************************)
(* C12.  No exception leaves the parser, whatever the file: whenever the   *)
(* quoting check of the trigger runs on a header line, the trigger         *)
(* candidate is not the empty string, so trig[0] and trig[-1] exist.       *)
(***************************************************************************)
QuotingCheckNext == HeaderNext /\ ParseHeader(line, context).wrapped

C12_NoException ==
    /\ []~raised
    /\ [][QuotingCheckNext => ParseHeader(line, context).candidate # <<>>]_vars

\* a snippet with option r and a description whose candidate had one
\* character, which the check accepted: the empty trigger
C12_Witness ==
    /\ ~raised
    /\ \E i \in 1..Len(events) :
        /\ IsSnippet(i)
        /\ Contains(events[i].data.options, "r")
        /\ events[i].data.trigger = <<>>
        /\ events[i].data.description # <<>>

(***************************************************************************)
(* C13.  A context directive that is reported as an error leaves the       *)
(* pending context as it was; so a snippet without option `e` all of whose *)
(* context directives since the previous header were reported as errors    *)
(* is emitted with context None.                                           *)
(***************************************************************************)
\* the step takes a context line and reports an error
FailedContextStep ==
    /\ HasNext
    /\ FirstWordIs(cur, KW_context)
    /\ Len(events') = Len(events) + 1
    /\ events'[Len(events')].type = "error"

\* line j yielded an error
ReportedError(j) == \E i \in 1..Len(events) : origin[i] = j /\ IsError(i)

\* a context directive was dispatched between the header above h and h and
\* was not reported as an error
ContextSetSince(h) ==
    \E j \in (PrevHeader(h) + 1)..(h - 1) :
        Dispatched(j) /\ FirstWordIs(j, KW_context) /\ ~ReportedError(j)

NoContextWithoutDirective ==
    \A i \in 1..Len(events) :
        (IsSnippet(i) /\ ~Contains(events[i].data.options, "e")
                      /\ ~ContextSetSince(origin[i]))
            => events[i].data.context = None

C13_FailedContextKeeps ==
    /\ [][FailedContextStep => context' = context]_vars
    /\ []NoContextWithoutDirective

(***************************************************************************)
(* C14.  The step that reports 'Invalid multiword trigger' for a header    *)
(* takes the header line only: the cursor stays on the header, so the line *)
(* below it is dispatched as a top-level line, and a valid block further   *)
(* down is still emitted.                                                  *)
(***************************************************************************)
InvalidTriggerFormat == "Invalid multiword trigger: '%s'"

\* the step appends an 'Invalid multiword trigger' error
TriggerRejected ==
    /\ Len(events') = Len(events) + 1
    /\ events'[Len(events')].type = "error"
    /\ events'[Len(events')].data.kind = "tuple"
    /\ events'[Len(events')].data.msg = InvalidTriggerFormat

LineBelowIsDispatched ==
    \A i \in 1..Len(events) :
        (IsErrorOf(i, InvalidTriggerFormat) /\ origin[i] < Len(consumer))
            => Dispatched(origin[i] + 1)

C14_ResumeAfterHeader ==
    /\ [][(HeaderNext /\ TriggerRejected) => line_index' = cur]_vars
    /\ []LineBelowIsDispatched

\* a header was rejected, its body line and its end marker were each reported
\* as an invalid line, and a block below them was emitted
C14_Witness ==
    \E i \in 1..Len(events) :
        /\ IsErrorOf(i, InvalidTriggerFormat)
        /\ i + 3 <= Len(events)
        /\ IsErrorOf(i + 1, "Invalid line %r")
        /\ origin[i + 1] = origin[i] + 1
        /\ IsErrorOf(i + 2, "Invalid line %r")
        /\ origin[i + 2] = origin[i] + 2
        /\ RStrip(data[origin[i + 2]]) = KW_end \o KW_snippet
        /\ IsSnippet(i + 3)

(***************************************************************************)
(* C15.  Every line produced by the cursor has exactly one consumer.  A    *)
(* line taken by the body collector lies below a dispatched header line,   *)
(* with no end marker of that header in between, and yields no event; the  *)
(* line after a collected line is dispatched exactly when the collected    *)
(* line is the end marker of its block.                                    *)
(***************************************************************************)
\* the dispatched line that opened the block line j belongs to
RECURSIVE OpenHeader(_)
OpenHeader(j) ==
    IF j < 1 THEN 0
    ELSE IF Dispatched(j) THEN j
    ELSE OpenHeader(j - 1)

\* the end marker of the block opened by line h
EndOf(h) == KW_end \o Split(data[h])[1]

CollectedInBlock(j) ==
    /\ OpenHeader(j) >= 1
    /\ IsHeaderLine(OpenHeader(j))
    /\ \A m \in (OpenHeader(j) + 1)..(j - 1) : RStrip(data[m]) # EndOf(OpenHeader(j))

\* the lines from below the header of an emitted snippet down to its end
\* marker were taken by the body collector
BlockLinesCollected ==
    \A i \in 1..Len(events) :
        IsSnippet(i) =>
            \E e \in (origin[i] + 1)..Len(consumer) :
                /\ RStrip(data[e]) = EndOf(origin[i])
                /\ \A m \in (origin[i] + 1)..e : Collected(m)

ConsumedOnce ==
    /\ Len(consumer) = line_index
    /\ BlockLinesCollected
    /\ \A i \in 1..Len(events) : Dispatched(origin[i])
    /\ \A j \in 1..Len(consumer) :
           Collected(j) =>
               /\ CollectedInBlock(j)
               /\ j < Len(consumer) =>
                      (Dispatched(j + 1) <=> RStrip(data[j]) = EndOf(OpenHeader(j)))

C15_ConsumedOnce ==
    /\ []ConsumedOnce
    /\ [][/\ line_index' > line_index
          /\ SubSeq(consumer', 1, Len(consumer)) = consumer
          /\ consumer'[cur] = "dispatcher"
          /\ \A j \in (cur + 1)..line_index' : consumer'[j] = "collector"]_vars

\* the file is parsed: a priority line inside a block was collected and
\* yielded nothing, and the line after the end marker of the block was
\* dispatched and yielded an event
C15_Witness ==
    /\ Finished
    /\ \E j \in 2..Len(consumer) :
        /\ Collected(j)
        /\ FirstWordIs(j, KW_priority)
        /\ current_priority = 0
        /\ \E k \in (j + 1)..(Len(consumer) - 1) :
               /\ Collected(k)
               /\ Dispatched(k + 1)
               /\ ReportedError(k + 1)

(***************************************************************************)
(* C16.  A block whose header is accepted ends at the first line below the *)
(* header that equals `end` + its keyword once right-stripped, and at the  *)
(* end of the file without such a line; the lines in between are its body, *)
(* whatever they look like.                                                *)
(***************************************************************************)
BlockOpenedStep == HeaderNext /\ ~raised' /\ ~TriggerRejected

\* body is the text of the lines between the header and the line the cursor
\* is left on
IsBodyOfBlock(body) ==
    IF line_index' = cur + 1
    THEN body = <<>>
    ELSE body \o <<"\n">> = Concat(SubSeq(data, cur + 1, line_index' - 1))

\* the body the step handed on: the value of the emitted snippet, or the
\* last body of a list of the globals table
BodyHandedOn ==
    IF FirstWordIs(cur, KW_snippet)
    THEN /\ Len(events') = Len(events) + 1
         /\ events'[Len(events')].type = "snippet"
         /\ IsBodyOfBlock(events'[Len(events')].data.value)
    ELSE /\ events' = events
         /\ \E k \in DOMAIN globals_heap'[python_globals] :
                LET bodies == globals_heap'[python_globals][k] IN
                /\ IsBodyOfBlock(bodies[Len(bodies)])
                /\ globals_heap[python_globals] # globals_heap'[python_globals]

ClosedByFirstEnd ==
    IF \E j \in (cur + 1)..Len(data) : RStrip(data[j]) = EndOf(cur)
    THEN /\ line_index' > cur
         /\ RStrip(data[line_index']) = EndOf(cur)
         /\ \A m \in (cur + 1)..(line_index' - 1) : RStrip(data[m]) # EndOf(cur)
         /\ BodyHandedOn
    ELSE line_index' = Len(data)

C16_ClosedByOwnMarker == [][BlockOpenedStep => ClosedByFirstEnd]_vars

\* a snippet whose body is an indented `endsnippet` and an `endglobal`, and
\* a global block whose body holds a whole snippet block
C16_Witness ==
    /\ \E i \in 1..Len(events) :
        /\ IsSnippet(i)
        /\ events[i].data.value = PyDropLast(L_indented_endsnippet \o L_endglobal, 1)
    /\ <<"p">> \in DOMAIN globals_heap[python_globals]
    /\ globals_heap[python_globals][<<"p">>][1] =
           PyDropLast(L_y \o L_snippet_a \o L_endsnippet, 1)

(***************************************************************************)
(* C17.  The location of every emitted snippet is the index of its header  *)
(* line, a dispatched line whose first word is `snippet`, whatever was     *)
(* collected above it; an 'Invalid multiword trigger' error carries the    *)
(* index of the header line that was rejected.                             *)
(***************************************************************************)
C17_LocationIsHeader ==
    \A i \in 1..Len(events) :
        /\ IsSnippet(i) =>
               /\ events[i].data.location = origin[i]
               /\ Dispatched(events[i].data.location)
               /\ FirstWordIs(events[i].data.location, KW_snippet)
        /\ IsErrorOf(i, InvalidTriggerFormat) =>
               /\ events[i].data.line = origin[i]
               /\ Dispatched(events[i].data.line)
               /\ IsHeaderLine(events[i].data.line)

\* a snippet at line 4, below a global block of three lines, with a body
\* line of its own, and a header rejected further down
C17_Witness ==
    \E i \in 1..Len(events) :
        /\ IsSnippet(i)
        /\ events[i].data.location = 4
        /\ Collected(2)
        /\ Collected(5)
        /\ \E k \in (i + 1)..Len(events) :
               /\ IsErrorOf(k, InvalidTriggerFormat)
               /\ events[k].data.line > 5

(***************************************************************************)
(* C18.  A snippet whose options contain `e` takes the context of the      *)
(* context directive pending at its header, and then its description and   *)
(* trigger are those of the header read without removing a context; with   *)
(* no context directive pending, its context, description and trigger are  *)
(* those of the header read with the right-most quoted segment removed as  *)
(* the context.                                                            *)
(***************************************************************************)
\* the trigger a parsed header leads to
TriggerOf(h) == IF h.wrapped THEN Unwrap(h.candidate) ELSE h.candidate

SameDescriptionAndTrigger(d, h) == d.description = h.descr /\ d.trigger = TriggerOf(h)

SnippetWithEYielded ==
    /\ SnippetYielded
    /\ Contains(events'[Len(events')].data.options, "e")

C18_InlineContext ==
    [][SnippetWithEYielded =>
        IF ContextSetSince(cur)
        THEN /\ events'[Len(events')].data.context = context
             /\ context.kind = "str"
             /\ SameDescriptionAndTrigger(events'[Len(events')].data,
                                          ParseHeader(line, PyStr(<<"c">>)))
        ELSE /\ events'[Len(events')].data.context = ParseHeader(line, None).context
             /\ SameDescriptionAndTrigger(events'[Len(events')].data,
                                          ParseHeader(line, None))]_vars

(***************************************************************************)
(* C19.  Every step dispatches one line and appends at most one event:     *)
(* none for a blank line, a comment, a global block that was added to the  *)
(* table, and a context, priority or action directive that succeeded, and  *)
(* exactly one for every other line; so the events of a parse are never    *)
(* more than the non-blank lines of the file.                              *)
(***************************************************************************)
\* line j yielded an event
ReportedSomething(j) == \E i \in 1..Len(events) : origin[i] = j

\* the line taken next yields nothing
QuietStep ==
    \/ BlankOrCommentNext
    \/ FirstWordIs(cur, KW_global) /\ globals_heap' # globals_heap
    \/ FirstWordIs(cur, KW_context) /\ Len(Split(line)) >= 2
    \/ FirstWordIs(cur, KW_priority) /\ Len(Split(line)) >= 2 /\ IsInt(Split(line)[2])
    \/ (\E kw \in ActionKeywords : FirstWordIs(cur, kw)) /\ Len(Split(line)) >= 2

NonBlankLines == { j \in 1..Len(data) : Strip(data[j]) # <<>> }

C19_OneEventPerLine ==
    /\ [][HasNext =>
            /\ SubSeq(events', 1, Len(events)) = events
            /\ Len(events') = Len(events) + (IF QuietStep THEN 0 ELSE 1)
            /\ line_index' >= cur]_vars
    /\ [](/\ Len(events) <= Cardinality(NonBlankLines)
          /\ \A i \in 1..(Len(events) - 1) : origin[i] < origin[i + 1])

\* the file is parsed: a global block, a context directive and an action
\* directive yielded nothing, and every other line one event each
C19_Witness ==
    /\ Finished
    /\ Len(events) >= 2
    /\ Len(events) < Len(data)
    /\ Len(events) = Cardinality({ j \in 1..Len(data) : Dispatched(j) /\ ReportedSomething(j) })
    /\ \E j \in 1..Len(data) : Dispatched(j) /\ FirstWordIs(j, KW_global)
                                  /\ globals_heap[python_globals] # EmptyTable
    /\ \E j \in 1..Len(data), kw \in ActionKeywords :
           Dispatched(j) /\ FirstWordIs(j, kw) /\ ~ReportedError(j)

(***************************************************************************)
(* C20.  The actions dict of an emitted snippet is never changed once the  *)
(* snippet is emitted, and it is not the dict the following directives     *)
(* write into: in every state it holds the successful action directives    *)
(* dispatched between the previous header and the snippet's header, the    *)
(* last one of each keyword.                                               *)
(***************************************************************************)
\* line j is a dispatched action directive of keyword kw with an argument
GoodActionLine(j, kw) ==
    Dispatched(j) /\ FirstWordIs(j, kw) /\ Len(Split(data[j])) >= 2

\* the lines between the header above h and h
PendingLines(h) == (PrevHeader(h) + 1)..(h - 1)

\* the last good action directive of keyword kw above h
LastActionLine(h, kw) ==
    CHOOSE j \in PendingLines(h) :
        /\ GoodActionLine(j, kw)
        /\ \A m \in PendingLines(h) : GoodActionLine(m, kw) => m <= j

ActionsAbove(h) ==
    [kw \in { k \in ActionKeywords : \E j \in PendingLines(h) : GoodActionLine(j, k) } |->
        handle_action(kw, head_tail(data[LastActionLine(h, kw)]).tail,
                      LastActionLine(h, kw)).value]

CapturedActionsAreOwn ==
    \A i \in 1..Len(events) :
        IsSnippet(i) =>
            /\ actions_heap[events[i].data.actions] = ActionsAbove(origin[i])
            /\ events[i].data.actions # actions

CapturedActionsKept ==
    \A i \in 1..Len(events) :
        IsSnippet(i) =>
            actions_heap'[events[i].data.actions] = actions_heap[events[i].data.actions]

C20_CapturedActions == []CapturedActionsAreOwn /\ [][CapturedActionsKept]_vars

\* a snippet emitted after two pre_expand directives holds the second one,
\* while the dict of the directives below its block holds another action
C20_Witness ==
    \E i \in 1..Len(events) :
        /\ IsSnippet(i)
        /\ DOMAIN actions_heap[events[i].data.actions] = {KW_pre_expand}
        /\ actions_heap[events[i].data.actions][KW_pre_expand] = PyStr(<<"y">>)
        /\ DOMAIN actions_heap[actions] = {KW_post_jump}

=============================================================================
